---- MODULE Spec2Model ----
(***************************************************************************)
(* A model of git2doc/loader.py: the discovery of repositories through the *)
(* paginated search API (get_repos_orchestrator, get_time_intervals,       *)
(* run_repos_query), the retry wrapper around clone-and-load              *)
(* (pull_code_helper, pull_code_from_repo) and the batching pipeline      *)
(* driver (pipeline_fetch_and_load, process_repo, write_to_parquet).      *)
(*                                                                         *)
(* The program is sequential; pc is the place the control has reached and  *)
(* every action is one step of the code between two such places.  The     *)
(* search API, git and the parquet writer are the environment: what they  *)
(* answer is chosen with \E from bounded sets.                             *)
(***************************************************************************)
EXTENDS Integers, Sequences, FiniteSets, TLC

----------------------------------------------------------------------------
(* Program constants *)

\* loader.py:302  n_intervals = math.ceil(n_repos / 900) if n_repos > 900 else 1
WindowCap == 900

\* loader.py:249  "per_page": 100
per_page == 100

\* loader.py:270  if page >= 10
PageCeiling == 10

\* loader.py:239  run_repos_query(..., max_retries=3, ...)
query_max_retries == 3

\* loader.py:321  pull_code_helper(..., max_retries=3)
helper_max_retries == 3

----------------------------------------------------------------------------
(* Bounds of the model *)

\* n_repos of a pipeline run is drawn from 1..MaxRepos
MaxRepos == 3

\* last_n_days is drawn from 1..MaxDays
MaxDays == 4

\* write_batch_size is drawn from 1..MaxBatch
MaxBatch == 2

\* a response of the search API for a small target carries 0..MaxItems items
MaxItems == 2

\* a repository yields 0..MaxDocs documents
MaxDocs == 2

\* page numbers from MaxPage on are identified (the code only tests page >= 10)
MaxPage == 12

\* max_retries of a direct call of pull_code_helper is drawn from 1..MaxRetriesArg
MaxRetriesArg == 4

\* n_intervals of a direct call of get_time_intervals is drawn from 1..MaxIntervals
MaxIntervals == 4

\* datetime.now() is days 0 plus 0..MaxTimeOfDay units of time of day
MaxTimeOfDay == 1

\* a repository's tree has 0..MaxTree entries
MaxTree == 3

\* the executor's pool runs at most MaxWorkers calls of load_file at a time
MaxWorkers == 2

----------------------------------------------------------------------------
(* Helpers *)

Min(a, b) == IF a <= b THEN a ELSE b

TakeAll(s, n) == s

Take(s, n) == SubSeq(s, 1, Min(n, Len(s)))

\* the sequences over S of length 0..n
SeqsUpTo(S, n) == UNION {[1..k -> S] : k \in 0..n}

----------------------------------------------------------------------------
(* Dates.  A datetime is a day number and a time of day; datetime.now() is *)
(* day 0, so that day -k is k days ago.                                    *)

Now(tod) == [day |-> 0, tod |-> tod]

\* datetime + timedelta(days=k), datetime - timedelta(days=k)
AddDays(dt, k) == [dt EXCEPT !.day = dt.day + k]

\* min(a, b) of two datetimes
MinDate(a, b) ==
    IF a.day < b.day \/ (a.day = b.day /\ a.tod <= b.tod) THEN a ELSE b

\* strftime("%Y-%m-%d"): the date, the time of day dropped
Strftime(dt) == dt.day

\* loader.py:229-234, the loop of get_time_intervals, k windows to go
RECURSIVE IntervalsLoop(_, _, _, _)
IntervalsLoop(k, start_date, end_date, days_per_interval) ==
    IF k = 0 THEN <<>>
    ELSE LET next_date ==
                 MinDate(AddDays(start_date, days_per_interval), end_date)
         IN  <<[start |-> Strftime(start_date), end |-> Strftime(next_date)]>>
             \o IntervalsLoop(k - 1, next_date, end_date, days_per_interval)

\* loader.py:224  days_per_interval = last_n_days // n_intervals
DaysPerInterval(days, n) == days \div n

\* loader.py:220-236
get_time_intervals(days, n, now) ==
    IntervalsLoop(n, AddDays(now, 0 - days), now, DaysPerInterval(days, n))

\* a mutant of NIntervals: the window count is rounded down
NIntervalsFloor(n) == IF n > WindowCap THEN n \div WindowCap ELSE 1

\* loader.py:302
NIntervals(n) ==
    IF n > WindowCap THEN (n + WindowCap - 1) \div WindowCap ELSE 1

\* loader.py:304  repo_batch_size = n_repos // n_intervals
RepoBatchSize(n) == n \div NIntervals(n)

----------------------------------------------------------------------------
(* The search API.  A repository descriptor is its size (0: empty); its    *)
(* key (html_url) is its place in the list discovery returns.              *)

Descriptor == [size : {0, 1}]

\* a full page: per_page descriptors of nonzero size
FullPage == [k \in 1..per_page |-> [size |-> 1]]

\* the "items" a successful response may carry, for a window's target count
Responses(target) ==
    {<<>>, FullPage}
    \cup (IF target <= per_page THEN SeqsUpTo(Descriptor, MaxItems) ELSE {})

----------------------------------------------------------------------------
(* The local workspace REPODATA_FOLDER: whether the root exists and the    *)
(* keys of the repositories that have a directory under it.                *)

NoWorkspace == [exists |-> FALSE, copies |-> {}]

\* shutil.rmtree(REPODATA_FOLDER, onerror=readonly_to_writable)
Rmtree(w) == NoWorkspace

\* loader.py:385-386 and 417-418: if os.path.exists(...): shutil.rmtree(...)
RmtreeIfExists(w) == IF w.exists THEN Rmtree(w) ELSE w

\* what pull_code_helper returns: None, or a list of documents
NoneResult == [some |-> FALSE, docs |-> <<>>]

SomeResult(docs) == [some |-> TRUE, docs |-> docs]

\* a mutant of Truthy: only None is false
TruthyNotNone(r) == r.some

\* the truth value Python gives `response` (None and [] are false)
Truthy(r) == r.some /\ r.docs # <<>>

----------------------------------------------------------------------------
VARIABLES
    pc,                  \* the place the control has reached
    raised,              \* the exception that is propagating, or "none"
    token,               \* whether GITHUB_ACCESS_TOKEN is set
    n_repos,             \* argument
    last_n_days,         \* argument
    write_batch_size,    \* argument
    n_intervals,         \* get_repos_orchestrator / get_time_intervals
    intervals,           \* the windows, a sequence of [start, end] dates
    win,                 \* the place in `for start_date, end_date in intervals`
    repos,               \* get_repos_orchestrator's repos, then the pipeline's
    q_repos,             \* run_repos_query's repos
    page,                \* run_repos_query's page
    retries,             \* run_repos_query's retries
    printed,             \* "Failed to get repos after 10 pages" messages printed
    req_failed,          \* history: a request of this discovery has failed
    i,                   \* the pipeline's loop index (repositories processed)
    metadata,            \* accumulator: keys of the repositories appended
    filedata,            \* accumulator: documents, each <<key, number>>
    write_batch_counter, \* the pipeline's batch index
    files,               \* the parquet files written, in order
    h_key,               \* pull_code_helper: repo_key
    h_delete,            \* pull_code_helper: delete
    h_max,               \* pull_code_helper: max_retries
    h_retries,           \* pull_code_helper: retries
    response,            \* what pull_code_helper returned
    repodata,            \* the local workspace
    last_git,            \* what git_pull did last: "none", "clone", "pull"
    attempts,            \* history: calls of pull_code_from_repo in this call
    resets,              \* history: rmtree calls of the except clauses
    flushes,             \* history: writes done in the loop and after it
    yielded,             \* history: keys whose documents were appended
    returned,            \* history: the documents pull_code_helper returned
    output_path,         \* load_file / load_concurrently: the working copy's path
    item,                \* load_file: the tree entry
    loaded,              \* what load_file returned
    tree,                \* load_concurrently: repo.tree().traverse()
    future_to_item,      \* load_concurrently: the futures, in submission order
    lc_files             \* load_concurrently: files

inputVars == <<token, n_repos, last_n_days, write_batch_size>>

orchVars == <<n_intervals, intervals, win, repos, printed, req_failed>>

queryVars == <<q_repos, page, retries>>

pipeVars ==
    <<i, metadata, filedata, write_batch_counter, files, flushes, yielded, returned>>

helperVars == <<h_key, h_delete, h_max, h_retries, response, attempts, resets>>

gitVars == <<repodata, last_git>>

loadVars == <<output_path, item, loaded, tree, future_to_item, lc_files>>

vars == <<pc, raised, inputVars, loadVars, orchVars, queryVars, pipeVars, helperVars,
          gitVars>>

----------------------------------------------------------------------------
(* Discovery *)

\* loader.py:244  while len(repos) < repo_batch_size
QueryLoopCond(len, target) == len < target

\* loader.py:256  while retries < max_retries
RetryCond(r) == r < query_max_retries

\* a mutant of ExhaustedReturns: the query gives up on page 9 already
ExhaustedReturnsEarly(p) == p >= PageCeiling - 1

\* loader.py:270  if page >= 10: ... return repos[:repo_batch_size]
ExhaustedReturns(p) == p >= PageCeiling

\* loader.py:275  page += 1 (pages from MaxPage on are identified)
NextPage(p) == Min(p + 1, MaxPage)

\* a mutant of TokenMissing: an absent token is not noticed
TokenNeverMissing(t) == FALSE

\* loader.py:212-213  access_token = os.getenv(...); if not access_token
TokenMissing(t) == ~t

\* loader.py:294-309: get_access_token, then the windows
GetReposOrchestrator ==
    /\ pc = "discover"
    /\ IF TokenMissing(token)
       THEN /\ raised' = "ValueError"
            /\ pc' = "unwind"
            /\ UNCHANGED orchVars
       ELSE /\ \E tod \in 0..MaxTimeOfDay :
                  intervals' = get_time_intervals(last_n_days,
                                                  NIntervals(n_repos), Now(tod))
            /\ n_intervals' = NIntervals(n_repos)
            /\ win' = 1
            /\ repos' = <<>>
            /\ pc' = "orch_loop"
            /\ UNCHANGED <<raised, printed, req_failed>>
    /\ UNCHANGED <<inputVars, loadVars, queryVars, pipeVars, helperVars, gitVars>>

\* loader.py:310-314 and 241-242: the next window's query starts
OrchNextWindow ==
    /\ pc = "orch_loop"
    /\ win <= Len(intervals)
    /\ q_repos' = <<>>
    /\ page' = 1
    /\ pc' = "query_loop"
    /\ UNCHANGED <<raised, inputVars, loadVars, orchVars, retries, pipeVars,
                   helperVars, gitVars>>

\* loader.py:317-318: return repos
OrchReturn ==
    /\ pc = "orch_loop"
    /\ win > Len(intervals)
    /\ pc' = "orch_ret"
    /\ UNCHANGED <<raised, inputVars, loadVars, orchVars, queryVars, pipeVars,
                   helperVars, gitVars>>

\* loader.py:244-255: the target is not met, the next page is asked for
QueryNextPage ==
    /\ pc = "query_loop"
    /\ QueryLoopCond(Len(q_repos), RepoBatchSize(n_repos))
    /\ retries' = 0
    /\ pc' = "session_get"
    /\ UNCHANGED <<raised, inputVars, loadVars, orchVars, q_repos, page, pipeVars,
                   helperVars, gitVars>>

\* loader.py:276 and 315: the target is met, the window's batch is returned;
\* the locals of run_repos_query end with the call
QueryReturn ==
    /\ pc = "query_loop"
    /\ ~QueryLoopCond(Len(q_repos), RepoBatchSize(n_repos))
    /\ repos' = repos \o Take(q_repos, RepoBatchSize(n_repos))
    /\ win' = win + 1
    /\ q_repos' = <<>>
    /\ page' = 0
    /\ retries' = 0
    /\ pc' = "orch_loop"
    /\ UNCHANGED <<raised, inputVars, loadVars, n_intervals, intervals, printed,
                   req_failed, pipeVars, helperVars, gitVars>>

\* loader.py:256-262 and 275: the request succeeds
RequestOk ==
    /\ pc = "session_get"
    /\ RetryCond(retries)
    /\ \E items \in Responses(RepoBatchSize(n_repos)) :
           q_repos' = q_repos \o items
    /\ page' = NextPage(page)
    /\ pc' = "query_loop"
    /\ UNCHANGED <<raised, inputVars, loadVars, orchVars, retries, pipeVars,
                   helperVars, gitVars>>

\* loader.py:256-275: the request fails
RequestFail ==
    /\ pc = "session_get"
    /\ RetryCond(retries)
    /\ IF RetryCond(retries + 1)
       THEN \* time.sleep(retry_delay), the same page again
            /\ retries' = retries + 1
            /\ pc' = "session_get"
            /\ UNCHANGED <<q_repos, page, n_intervals, intervals, win, repos, printed>>
       ELSE IF ExhaustedReturns(page)
       THEN \* print(...), return repos[:repo_batch_size]
            /\ printed' = printed + 1
            /\ repos' = repos \o Take(q_repos, RepoBatchSize(n_repos))
            /\ win' = win + 1
            /\ q_repos' = <<>>
            /\ page' = 0
            /\ retries' = 0
            /\ pc' = "orch_loop"
            /\ UNCHANGED <<n_intervals, intervals>>
       ELSE \* the retry loop ends, page += 1
            /\ retries' = retries + 1
            /\ page' = NextPage(page)
            /\ pc' = "query_loop"
            /\ UNCHANGED <<q_repos, n_intervals, intervals, win, repos, printed>>
    /\ req_failed' = TRUE
    /\ UNCHANGED <<raised, inputVars, loadVars, pipeVars, helperVars, gitVars>>

NextDiscover ==
    \/ GetReposOrchestrator
    \/ OrchNextWindow
    \/ OrchReturn
    \/ QueryNextPage
    \/ QueryReturn
    \/ RequestOk
    \/ RequestFail

----------------------------------------------------------------------------
(* The retry wrapper *)

\* a mutant of HelperLoopCond: one attempt too many
HelperLoopCondOneMore(r, max) == r <= max

\* loader.py:324  while retries < max_retries
HelperLoopCond(r, max) == r < max

\* loader.py:134  if os.path.exists(output_path)
GitOp(w, key) == IF key \in w.copies THEN "pull" ELSE "clone"

\* loader.py:134-146: the workspace once git_pull has made the working copy
Materialized(w, key) == [exists |-> TRUE, copies |-> w.copies \cup {key}]

\* a mutant of AfterLoad: the working copy is left in place
AfterLoadKeep(w, key, delete) == Materialized(w, key)

\* loader.py:183-184  if delete: shutil.rmtree(REPODATA_FOLDER, ...)
AfterLoad(w, key, delete) ==
    IF delete THEN Rmtree(Materialized(w, key)) ELSE Materialized(w, key)

\* loader.py:326-327 with 175-186: materialize and load succeed
PullOk ==
    /\ pc = "pull"
    /\ HelperLoopCond(h_retries, h_max)
    /\ attempts' = attempts + 1
    /\ last_git' = GitOp(repodata, h_key)
    /\ repodata' = AfterLoad(repodata, h_key, h_delete)
    /\ \E n \in 0..MaxDocs : response' = SomeResult([k \in 1..n |-> k])
    /\ pc' = "helper_ret"
    /\ UNCHANGED <<raised, inputVars, loadVars, orchVars, queryVars, pipeVars,
                   h_key, h_delete, h_max, h_retries, resets>>

\* loader.py:326 and 328-333: InvalidGitRepositoryError or GitCommandError;
\* either except clause removes the workspace root and counts a retry
PullRetryable ==
    /\ pc = "pull"
    /\ HelperLoopCond(h_retries, h_max)
    /\ attempts' = attempts + 1
    /\ last_git' = GitOp(repodata, h_key)
    /\ repodata' = Rmtree(repodata)
    /\ resets' = resets + 1
    /\ h_retries' = h_retries + 1
    /\ pc' = "pull"
    /\ UNCHANGED <<raised, inputVars, loadVars, orchVars, queryVars, pipeVars,
                   h_key, h_delete, h_max, response>>

\* loader.py:326: any other exception is caught by no except clause; the
\* working copy may or may not have been made by then
PullRaise ==
    /\ pc = "pull"
    /\ HelperLoopCond(h_retries, h_max)
    /\ attempts' = attempts + 1
    /\ last_git' = GitOp(repodata, h_key)
    /\ \E made \in BOOLEAN :
           repodata' = IF made THEN Materialized(repodata, h_key) ELSE repodata
    /\ raised' = "MaterializeError"
    /\ pc' = "unwind"
    /\ UNCHANGED <<inputVars, loadVars, orchVars, queryVars, pipeVars,
                   h_key, h_delete, h_max, h_retries, response, resets>>

\* loader.py:334-335: the attempts are used up, return None
PullGiveUp ==
    /\ pc = "pull"
    /\ ~HelperLoopCond(h_retries, h_max)
    /\ response' = NoneResult
    /\ pc' = "helper_ret"
    /\ UNCHANGED <<raised, inputVars, loadVars, orchVars, queryVars, pipeVars,
                   h_key, h_delete, h_max, h_retries, attempts, resets, gitVars>>

NextRetry ==
    \/ PullOk
    \/ PullRetryable
    \/ PullRaise
    \/ PullGiveUp

----------------------------------------------------------------------------
(* The pipeline driver *)

\* a mutant of BatchDue: the index is not shifted to a count
BatchDueUnshifted(idx, b) == idx % b = 0

\* loader.py:405  if not (i + 1) % write_batch_size
BatchDue(idx, b) == (idx + 1) % b = 0

\* a mutant of Remainder: what is left after the loop is never written
RemainderNever(md, fd) == FALSE

\* loader.py:412  if metadata and filedata
Remainder(md, fd) == md # <<>> /\ fd # <<>>

\* loader.py:346-351: the two files of a batch, filedata first
WrittenFiles(fd, md, c) ==
    << [kind |-> "filedata", index |-> c, rows |-> fd],
       [kind |-> "metadata", index |-> c, rows |-> md] >>

\* a mutant of Cleanup: the finally clause removes nothing
CleanupNothing(w) == w

\* loader.py:415-418: the finally clause
Cleanup(w) == RmtreeIfExists(w)

\* a mutant of HasSize: every repository is taken to have content
HasSizeAlways(repo) == TRUE

\* loader.py:357  if repo["size"]
HasSize(repo) == repo.size # 0

\* loader.py:383-386: a stale workspace is removed
CleanStale ==
    /\ pc = "start"
    /\ repodata' = RmtreeIfExists(repodata)
    /\ pc' = "discover"
    /\ UNCHANGED <<raised, inputVars, loadVars, orchVars, queryVars, pipeVars,
                   helperVars, last_git>>

\* loader.py:388-397: discovery has returned
PipelineInit ==
    /\ pc = "orch_ret"
    /\ i' = 0
    /\ write_batch_counter' = 1
    /\ metadata' = <<>>
    /\ filedata' = <<>>
    /\ pc' = "pipe_loop"
    /\ UNCHANGED <<raised, inputVars, loadVars, orchVars, queryVars, files, flushes,
                   yielded, returned, helperVars, gitVars>>

\* loader.py:399-401, 357 and 374: a repository of size zero
ProcessRepoSkip ==
    /\ pc = "pipe_loop"
    /\ i < Len(repos)
    /\ ~HasSize(repos[i + 1])
    /\ pc' = "batch_check"
    /\ UNCHANGED <<raised, inputVars, loadVars, orchVars, queryVars, pipeVars,
                   helperVars, gitVars>>

\* loader.py:399-401, 357-365 and 323: pull_code_helper is called
ProcessRepoCall ==
    /\ pc = "pipe_loop"
    /\ i < Len(repos)
    /\ HasSize(repos[i + 1])
    /\ h_key' = i + 1
    /\ h_delete' = TRUE
    /\ h_max' = helper_max_retries
    /\ h_retries' = 0
    /\ response' = NoneResult
    /\ attempts' = 0
    /\ resets' = 0
    /\ pc' = "pull"
    /\ UNCHANGED <<raised, inputVars, loadVars, orchVars, queryVars, pipeVars, gitVars>>

\* loader.py:366-374: process_repo after pull_code_helper has returned; the
\* call's locals and its history end with it
ProcessRepoAppend ==
    /\ pc = "helper_ret"
    /\ IF Truthy(response)
       THEN /\ metadata' = Append(metadata, h_key)
            /\ filedata' = filedata
                  \o [k \in 1..Len(response.docs) |-> <<h_key, response.docs[k]>>]
            /\ yielded' = yielded \cup {h_key}
       ELSE UNCHANGED <<metadata, filedata, yielded>>
    /\ returned' = IF response.some
                   THEN returned \o [k \in 1..Len(response.docs) |->
                                        <<h_key, response.docs[k]>>]
                   ELSE returned
    /\ h_key' = 0
    /\ h_retries' = 0
    /\ response' = NoneResult
    /\ attempts' = 0
    /\ resets' = 0
    /\ pc' = "batch_check"
    /\ UNCHANGED <<raised, inputVars, loadVars, orchVars, queryVars, i,
                   write_batch_counter, files, flushes, h_delete, h_max, gitVars>>

\* loader.py:405-409: the batch is written, then cleared
BatchFlush ==
    /\ pc = "batch_check"
    /\ BatchDue(i, write_batch_size)
    /\ files' = files \o WrittenFiles(filedata, metadata, write_batch_counter)
    /\ metadata' = <<>>
    /\ filedata' = <<>>
    /\ write_batch_counter' = write_batch_counter + 1
    /\ flushes' = [flushes EXCEPT !.loop = @ + 1]
    /\ i' = i + 1
    /\ pc' = "pipe_loop"
    /\ UNCHANGED <<raised, inputVars, loadVars, orchVars, queryVars, yielded, returned,
                   helperVars, gitVars>>

\* loader.py:405-406: write_to_parquet raises, before or after the first file
BatchWriteError ==
    /\ pc = "batch_check"
    /\ BatchDue(i, write_batch_size)
    /\ \E written \in 0..1 :
           files' = files
               \o Take(WrittenFiles(filedata, metadata, write_batch_counter), written)
    /\ raised' = "WriteError"
    /\ pc' = "unwind"
    /\ UNCHANGED <<inputVars, loadVars, orchVars, queryVars, i, metadata, filedata,
                   write_batch_counter, flushes, yielded, returned,
                   helperVars, gitVars>>

\* loader.py:405 and 399: no batch is due
BatchNotDue ==
    /\ pc = "batch_check"
    /\ ~BatchDue(i, write_batch_size)
    /\ i' = i + 1
    /\ pc' = "pipe_loop"
    /\ UNCHANGED <<raised, inputVars, loadVars, orchVars, queryVars, metadata, filedata,
                   write_batch_counter, files, flushes, yielded, returned,
                   helperVars, gitVars>>

\* loader.py:411-413: the remainder is written
FinalFlush ==
    /\ pc = "pipe_loop"
    /\ i >= Len(repos)
    /\ Remainder(metadata, filedata)
    /\ files' = files \o WrittenFiles(filedata, metadata, write_batch_counter)
    /\ flushes' = [flushes EXCEPT !.final = @ + 1]
    /\ pc' = "finally"
    /\ UNCHANGED <<raised, inputVars, loadVars, orchVars, queryVars, i, metadata,
                   filedata, write_batch_counter, yielded, returned,
                   helperVars, gitVars>>

\* loader.py:412-413: write_to_parquet raises
FinalWriteError ==
    /\ pc = "pipe_loop"
    /\ i >= Len(repos)
    /\ Remainder(metadata, filedata)
    /\ \E written \in 0..1 :
           files' = files
               \o Take(WrittenFiles(filedata, metadata, write_batch_counter), written)
    /\ raised' = "WriteError"
    /\ pc' = "unwind"
    /\ UNCHANGED <<inputVars, loadVars, orchVars, queryVars, i, metadata, filedata,
                   write_batch_counter, flushes, yielded, returned,
                   helperVars, gitVars>>

\* loader.py:412: there is no remainder
FinalSkip ==
    /\ pc = "pipe_loop"
    /\ i >= Len(repos)
    /\ ~Remainder(metadata, filedata)
    /\ pc' = "finally"
    /\ UNCHANGED <<raised, inputVars, loadVars, orchVars, queryVars, pipeVars,
                   helperVars, gitVars>>

\* loader.py:415-418: the finally clause, on a return and on an exception
Finally ==
    /\ pc \in {"finally", "unwind"}
    /\ repodata' = Cleanup(repodata)
    /\ pc' = "done"
    /\ UNCHANGED <<raised, inputVars, loadVars, orchVars, queryVars, pipeVars,
                   helperVars, last_git>>

NextPipeline ==
    \/ CleanStale
    \/ PipelineInit
    \/ ProcessRepoSkip
    \/ ProcessRepoCall
    \/ ProcessRepoAppend
    \/ BatchFlush
    \/ BatchWriteError
    \/ BatchNotDue
    \/ FinalFlush
    \/ FinalWriteError
    \/ FinalSkip
    \/ Finally

----------------------------------------------------------------------------
(* The windows alone: get_time_intervals called with any n_intervals, and  *)
(* as get_repos_orchestrator calls it.                                     *)

\* loader.py:220-236: get_time_intervals(last_n_days, n_intervals)
GetTimeIntervals ==
    /\ pc = "windows"
    /\ \E tod \in 0..MaxTimeOfDay :
           intervals' = get_time_intervals(last_n_days, n_intervals, Now(tod))
    /\ pc' = "intervals_ret"
    /\ UNCHANGED <<raised, inputVars, loadVars, n_intervals, win, repos, printed,
                   req_failed, queryVars, pipeVars, helperVars, gitVars>>

\* loader.py:302-303: the windows get_repos_orchestrator asks for
OrchestratorWindows ==
    /\ pc = "windows"
    /\ n_intervals' = NIntervals(n_repos)
    /\ \E tod \in 0..MaxTimeOfDay :
           intervals' = get_time_intervals(last_n_days, NIntervals(n_repos), Now(tod))
    /\ pc' = "windows_ret"
    /\ UNCHANGED <<raised, inputVars, loadVars, win, repos, printed, req_failed,
                   queryVars, pipeVars, helperVars, gitVars>>

NextWindows ==
    \/ GetTimeIntervals
    \/ OrchestratorWindows

----------------------------------------------------------------------------
(* The file loader.  A string is the sequence of its pieces: names,        *)
(* extensions such as ".py", and the separator "/".  A tree entry is the   *)
(* object repo.tree().traverse() yields: its type (Tree, Submodule, or     *)
(* Blob, which GitPython also gives to a symbolic link), its git mode, its *)
(* path in the repository, and what open(file_path, "rb").read() meets in  *)
(* the working copy.                                                       *)

\* loader.py:64  REPODATA_FOLDER = "./repodata/"
REPODATA_FOLDER == <<".", "/", "repodata", "/">>

\* loader.py:17-63  those of UNWANTED_TYPES that the paths drawn can end with
UNWANTED_TYPES == {<<".json">>, <<".png">>, <<".lock">>}

\* the pieces that are extensions
Extensions == {".py", ".json", ".png", ".lock"}

\* loader.py:175-176  output_path = f"{REPODATA_FOLDER}{folder_name}/"
OutputPath(folder_name) == REPODATA_FOLDER \o folder_name \o <<"/">>

\* str.endswith
EndsWith(s, t) ==
    Len(t) <= Len(s) /\ SubSeq(s, Len(s) - Len(t) + 1, Len(s)) = t

\* os.path.join(a, p)
Join(a, p) ==
    IF p # <<>> /\ Head(p) = "/" THEN p
    ELSE IF a = <<>> \/ a[Len(a)] = "/" THEN a \o p
    ELSE a \o <<"/">> \o p

\* s.split("/")
RECURSIVE Components(_)
Components(s) ==
    IF s = <<>> THEN << <<>> >>
    ELSE LET rest == Components(Tail(s))
         IN  IF Head(s) = "/" THEN << <<>> >> \o rest
             ELSE << <<Head(s)>> \o Head(rest) >> \o Tail(rest)

\* os.path.normpath, as components: empty and "." components are dropped
Normpath(s) == SelectSeq(Components(s), LAMBDA c : c # <<>> /\ c # <<".">>)

RECURSIVE CommonLen(_, _)
CommonLen(a, b) ==
    IF a = <<>> \/ b = <<>> THEN 0
    ELSE IF Head(a) # Head(b) THEN 0
    ELSE 1 + CommonLen(Tail(a), Tail(b))

\* "/".join(cs)
RECURSIVE JoinComponents(_)
JoinComponents(cs) ==
    IF cs = <<>> THEN <<>>
    ELSE IF Len(cs) = 1 THEN cs[1]
    ELSE cs[1] \o <<"/">> \o JoinComponents(Tail(cs))

\* os.path.relpath(path, start): ".." for every component of start that is
\* not shared, then the components of path that are not shared
Relpath(path, start) ==
    LET p == Normpath(path)
        st == Normpath(start)
        c == CommonLen(p, st)
        rel == [k \in 1..(Len(st) - c) |-> <<"..">>] \o SubSeq(p, c + 1, Len(p))
    IN  IF rel = <<>> THEN <<".">> ELSE JoinComponents(rel)

\* item.name: the last component of item.path
Name(path) == LET cs == Components(path) IN cs[Len(cs)]

\* os.path.splitext(name)[1]: a leading dot does not start an extension
Splitext(name) ==
    IF Len(name) >= 2 /\ name[Len(name)] \in Extensions
    THEN <<name[Len(name)]>>
    ELSE <<>>

\* bytes.decode("utf-8") from byte k on: one-byte and two-byte sequences
\* (the contents drawn hold no lead byte of a longer one)
RECURSIVE DecodeFrom(_, _)
DecodeFrom(b, k) ==
    IF k > Len(b) THEN [ok |-> TRUE, text |-> <<>>]
    ELSE IF b[k] < 128
    THEN LET rest == DecodeFrom(b, k + 1)
         IN  [ok |-> rest.ok, text |-> <<b[k]>> \o rest.text]
    ELSE IF /\ b[k] >= 194 /\ b[k] <= 223 /\ k + 1 <= Len(b)
            /\ b[k + 1] >= 128 /\ b[k + 1] <= 191
    THEN LET rest == DecodeFrom(b, k + 2)
         IN  [ok |-> rest.ok,
              text |-> <<(b[k] - 192) * 64 + (b[k + 1] - 128)>> \o rest.text]
    ELSE [ok |-> FALSE, text |-> <<>>]

\* loader.py:88-91  content.decode("utf-8"), or UnicodeDecodeError
Decode(b) == DecodeFrom(b, 1)

\* loader.py:74  isinstance(item, Blob)
IsBlob(it) == it.type = "blob"

\* loader.py:75, 80, 91, 100  return None
NoFile == [some |-> FALSE]

\* loader.py:93-98
Document(text_content, rel_file_path, name, file_type) ==
    [some |-> TRUE, page_content |-> text_content, file_path |-> rel_file_path,
     file_name |-> name, file_type |-> file_type]

\* loader.py:67-100
load_file(it, out) ==
    IF ~IsBlob(it) THEN NoFile
    ELSE LET file_path == Join(out, it.path)
         IN  IF \E t \in UNWANTED_TYPES : EndsWith(file_path, t) THEN NoFile
             ELSE LET rel_file_path == Relpath(file_path, out)
                  IN  IF ~it.disk.ok
                      THEN \* open or read raises: except Exception
                           NoFile
                      ELSE LET text_content == Decode(it.disk.bytes)
                           IN  IF ~text_content.ok
                               THEN \* except UnicodeDecodeError
                                    NoFile
                               ELSE Document(text_content.text, rel_file_path,
                                             Name(it.path),
                                             Splitext(Name(it.path)))

\* the repositories' folder names ("owner/name") drawn
FolderNames == {<<"o", "/", "r">>, <<"o", "/", "r", ".json">>}

\* the paths of files and links drawn
ItemPaths ==
    {<<"README">>, <<"a", ".py">>, <<"b", ".png">>, <<".lock">>,
     <<"d", "/", "a", ".py">>, <<"d", "/", "a", ".json">>, <<".png", "/", "a">>}

\* the paths of directories and submodules drawn
DirPaths == {<<"d">>, <<".png">>}

\* the byte contents drawn: empty, ASCII, a two-byte sequence, two that are
\* not UTF-8
Contents == {<<>>, <<97>>, <<195, 169>>, <<255>>, <<97, 195>>}

\* open(file_path, "rb").read(): an OSError, or the bytes.  A link is
\* followed: its bytes are its target's, a dangling one is an OSError.
OSErrorOnOpen == [ok |-> FALSE, bytes |-> <<>>]

Disks == {OSErrorOnOpen} \cup {[ok |-> TRUE, bytes |-> b] : b \in Contents}

Entries ==
    [type : {"blob"}, mode : {"file", "symlink"}, path : ItemPaths, disk : Disks]
    \cup [type : {"tree"}, mode : {"dir"}, path : DirPaths, disk : {OSErrorOnOpen}]
    \cup [type : {"submodule"}, mode : {"commit"}, path : {<<"sub">>},
          disk : {OSErrorOnOpen}]

NoItem == [type |-> "none", mode |-> "none", path |-> <<>>, disk |-> OSErrorOnOpen]

\* loader.py:67-100: load_file(item, output_path) called and returned
LoadFile ==
    /\ pc = "load_file"
    /\ loaded' = load_file(item, output_path)
    /\ pc' = "load_file_ret"
    /\ UNCHANGED <<raised, inputVars, output_path, item, tree, future_to_item,
                   lc_files, orchVars, queryVars, pipeVars, helperVars, gitVars>>

NextLoadFile == LoadFile

----------------------------------------------------------------------------
(* The concurrent tree loader.  The main thread submits one future per     *)
(* entry of the tree, then takes the futures as they complete; the pool's  *)
(* threads take the submitted calls in submission order and run them at    *)
(* the same time as the main thread and as each other.                     *)

\* the entries a tree is made of: a directory, a submodule, a text file, a
\* file that is not UTF-8, a file of an unwanted type, a file that cannot be
\* read, a link to a text file
TreeEntries ==
    {[type |-> "tree", mode |-> "dir", path |-> <<"d">>, disk |-> OSErrorOnOpen],
     [type |-> "submodule", mode |-> "commit", path |-> <<"sub">>,
      disk |-> OSErrorOnOpen],
     [type |-> "blob", mode |-> "file", path |-> <<"a", ".py">>,
      disk |-> [ok |-> TRUE, bytes |-> <<97>>]],
     [type |-> "blob", mode |-> "file", path |-> <<"d", "/", "a", ".py">>,
      disk |-> [ok |-> TRUE, bytes |-> <<255>>]],
     [type |-> "blob", mode |-> "file", path |-> <<"d", "/", "a", ".json">>,
      disk |-> [ok |-> TRUE, bytes |-> <<97>>]],
     [type |-> "blob", mode |-> "file", path |-> <<"README">>,
      disk |-> OSErrorOnOpen],
     [type |-> "blob", mode |-> "symlink", path |-> <<".png", "/", "a">>,
      disk |-> [ok |-> TRUE, bytes |-> <<97>>]]}

\* repo.tree().traverse(): every entry once
Trees ==
    {t \in SeqsUpTo(TreeEntries, MaxTree) :
        \A j, k \in 1..Len(t) : j # k => t[j] # t[k]}

\* the futures in the state st
InState(st) == {k \in 1..Len(future_to_item) : future_to_item[k].state = st}

\* loader.py:112-115  executor.submit(load_file, item, output_path), for the
\* next item of the traversal
Submit ==
    /\ pc = "lc_submit"
    /\ Len(future_to_item) < Len(tree)
    /\ future_to_item' = Append(future_to_item,
           [item |-> tree[Len(future_to_item) + 1], state |-> "pending",
            result |-> NoFile, yielded |-> FALSE])
    /\ UNCHANGED <<pc, raised, inputVars, output_path, item, loaded, tree, lc_files,
                   orchVars, queryVars, pipeVars, helperVars, gitVars>>

\* loader.py:116  every item is submitted, as_completed(future_to_item) starts
AsCompleted ==
    /\ pc = "lc_submit"
    /\ Len(future_to_item) = Len(tree)
    /\ pc' = "lc_collect"
    /\ UNCHANGED <<raised, inputVars, loadVars, orchVars, queryVars, pipeVars,
                   helperVars, gitVars>>

\* loader.py:111-113  a thread of the pool takes the call submitted first
\* among those waiting
WorkerStart ==
    /\ pc \in {"lc_submit", "lc_collect"}
    /\ Cardinality(InState("running")) < MaxWorkers
    /\ \E k \in InState("pending") :
           /\ \A j \in InState("pending") : k <= j
           /\ future_to_item' = [future_to_item EXCEPT ![k].state = "running"]
    /\ UNCHANGED <<pc, raised, inputVars, output_path, item, loaded, tree, lc_files,
                   orchVars, queryVars, pipeVars, helperVars, gitVars>>

\* loader.py:111-113  a thread of the pool returns from load_file(item, output_path)
WorkerFinish ==
    /\ pc \in {"lc_submit", "lc_collect"}
    /\ \E k \in InState("running") :
           future_to_item' =
               [future_to_item EXCEPT
                   ![k].state = "finished",
                   ![k].result = load_file(future_to_item[k].item, output_path)]
    /\ UNCHANGED <<pc, raised, inputVars, output_path, item, loaded, tree, lc_files,
                   orchVars, queryVars, pipeVars, helperVars, gitVars>>

\* loader.py:116-119  as_completed yields a finished future it has not yet
\* yielded; the main thread appends its result unless it is None
Collect ==
    /\ pc = "lc_collect"
    /\ \E k \in InState("finished") :
           /\ ~future_to_item[k].yielded
           /\ future_to_item' = [future_to_item EXCEPT ![k].yielded = TRUE]
           /\ lc_files' = IF future_to_item[k].result.some
                          THEN Append(lc_files, future_to_item[k].result)
                          ELSE lc_files
    /\ UNCHANGED <<pc, raised, inputVars, output_path, item, loaded, tree, orchVars,
                   queryVars, pipeVars, helperVars, gitVars>>

\* loader.py:120-122  every future was yielded: executor.shutdown(wait=True),
\* return files
LoadReturn ==
    /\ pc = "lc_collect"
    /\ \A k \in 1..Len(future_to_item) : future_to_item[k].yielded
    /\ pc' = "lc_ret"
    /\ UNCHANGED <<raised, inputVars, loadVars, orchVars, queryVars, pipeVars,
                   helperVars, gitVars>>

NextLoad ==
    \/ Submit
    \/ AsCompleted
    \/ WorkerStart
    \/ WorkerFinish
    \/ Collect
    \/ LoadReturn

----------------------------------------------------------------------------
(* Initial states *)

\* n_repos around the window cap: 900, 901, 1800, 1801
LargeRepos == {k * WindowCap + d : k \in 1..2, d \in 0..1}

\* the workspace a run may find: none, an empty root, a stale working copy
StaleWorkspaces ==
    {NoWorkspace, [exists |-> TRUE, copies |-> {}], [exists |-> TRUE, copies |-> {1}]}

InitLocals ==
    /\ raised = "none"
    /\ intervals = <<>>
    /\ win = 0
    /\ printed = 0
    /\ req_failed = FALSE
    /\ repos = <<>>
    /\ q_repos = <<>>
    /\ page = 0
    /\ retries = 0
    /\ i = 0
    /\ metadata = <<>>
    /\ filedata = <<>>
    /\ write_batch_counter = 0
    /\ files = <<>>
    /\ h_retries = 0
    /\ response = NoneResult
    /\ last_git = "none"
    /\ attempts = 0
    /\ resets = 0
    /\ flushes = [loop |-> 0, final |-> 0]
    /\ yielded = {}
    /\ returned = <<>>

\* no load_file or load_concurrently call is under way
InitLoadIdle ==
    /\ output_path = <<>>
    /\ item = NoItem
    /\ loaded = NoFile
    /\ tree = <<>>
    /\ future_to_item = <<>>
    /\ lc_files = <<>>

\* pipeline_fetch_and_load(n_repos, last_n_days, language, write_batch_size)
Init ==
    /\ InitLocals
    /\ InitLoadIdle
    /\ pc = "start"
    /\ n_intervals = 0
    /\ token \in BOOLEAN
    /\ n_repos \in 1..MaxRepos
    /\ last_n_days \in {1, MaxDays}
    /\ write_batch_size \in 1..MaxBatch
    /\ repodata \in StaleWorkspaces
    /\ h_key = 0
    /\ h_delete = TRUE
    /\ h_max = helper_max_retries

\* get_repos_orchestrator(n_repos, last_n_days, language)
InitDiscover ==
    /\ InitLocals
    /\ InitLoadIdle
    /\ pc = "discover"
    /\ n_intervals = 0
    /\ token \in BOOLEAN
    /\ n_repos \in (1..MaxRepos) \cup LargeRepos
    /\ last_n_days \in 1..MaxDays
    /\ write_batch_size = 1
    /\ repodata = NoWorkspace
    /\ h_key = 0
    /\ h_delete = TRUE
    /\ h_max = helper_max_retries

\* pull_code_helper(repo_key, branch, delete, max_retries)
InitRetry ==
    /\ InitLocals
    /\ InitLoadIdle
    /\ pc = "pull"
    /\ n_intervals = 0
    /\ token = TRUE
    /\ n_repos = 1
    /\ last_n_days = 1
    /\ write_batch_size = 1
    /\ repodata \in StaleWorkspaces
    /\ h_key = 1
    /\ h_delete \in BOOLEAN
    /\ h_max \in 1..MaxRetriesArg

\* get_time_intervals(last_n_days, n_intervals), and the orchestrator's call
InitWindows ==
    /\ InitLocals
    /\ InitLoadIdle
    /\ pc = "windows"
    /\ n_intervals \in 1..MaxIntervals
    /\ token = TRUE
    /\ n_repos \in (1..MaxRepos) \cup LargeRepos
    /\ last_n_days \in 1..MaxDays
    /\ write_batch_size = 1
    /\ repodata = NoWorkspace
    /\ h_key = 0
    /\ h_delete = TRUE
    /\ h_max = helper_max_retries

\* load_file(item, output_path), in the working copy of a repository
InitLoadFile ==
    /\ InitLocals
    /\ pc = "load_file"
    /\ n_intervals = 0
    /\ token = TRUE
    /\ n_repos = 1
    /\ last_n_days = 1
    /\ write_batch_size = 1
    /\ repodata = [exists |-> TRUE, copies |-> {1}]
    /\ h_key = 1
    /\ h_delete = TRUE
    /\ h_max = helper_max_retries
    /\ output_path \in {OutputPath(f) : f \in FolderNames}
    /\ item \in Entries
    /\ loaded = NoFile
    /\ tree = <<>>
    /\ future_to_item = <<>>
    /\ lc_files = <<>>

\* load_concurrently(repo, output_path), in the working copy of a repository
InitLoad ==
    /\ InitLocals
    /\ pc = "lc_submit"
    /\ n_intervals = 0
    /\ token = TRUE
    /\ n_repos = 1
    /\ last_n_days = 1
    /\ write_batch_size = 1
    /\ repodata = [exists |-> TRUE, copies |-> {1}]
    /\ h_key = 1
    /\ h_delete = TRUE
    /\ h_max = helper_max_retries
    /\ output_path = OutputPath(<<"o", "/", "r">>)
    /\ item = NoItem
    /\ loaded = NoFile
    /\ tree \in Trees
    /\ future_to_item = <<>>
    /\ lc_files = <<>>

Next == NextPipeline \/ NextDiscover \/ NextRetry

Spec == Init /\ [][Next]_vars

SpecDiscover == InitDiscover /\ [][NextDiscover]_vars

SpecDiscoverFair == SpecDiscover /\ WF_vars(NextDiscover)

SpecRetry == InitRetry /\ [][NextRetry]_vars

SpecWindows == InitWindows /\ [][NextWindows]_vars

SpecLoadFile == InitLoadFile /\ [][NextLoadFile]_vars

SpecLoad == InitLoad /\ [][NextLoad]_vars

----------------------------------------------------------------------------
(* Properties *)

\* C1 (SpecRetry): when pull_code_helper returns documents, they come from
\* the attempt after k < max_retries failed ones and the except clauses have
\* removed the workspace root exactly k times; when it returns None it has
\* made exactly max_retries attempts, every one of them followed by a reset.
C1_RetryWrapper ==
    pc = "helper_ret" =>
        IF response.some
        THEN resets < h_max /\ attempts = resets + 1
        ELSE attempts = h_max /\ resets = h_max

\* C1: two failed attempts, then a successful one
C1_Witness ==
    pc = "helper_ret" /\ response.some /\ resets = 2 /\ attempts = 3

\* the repositories of the last, incomplete batch: keys above b * floor(B / b)
TailKeys(B, b) == {k \in 1..B : k > b * (B \div b)}

\* C2 as claimed (Spec): a run that completes has made floor(B/b) flushes in
\* the loop and, whenever B mod b > 0, exactly one more after it.
C2_FlushCountClaimed ==
    (pc = "done" /\ raised = "none") =>
        /\ flushes.loop = Len(repos) \div write_batch_size
        /\ flushes.final = IF Len(repos) % write_batch_size > 0 THEN 1 ELSE 0

\* C2 as amended (Spec): a run that completes has made floor(B/b) flushes in
\* the loop, and one more after it exactly when a repository of the last,
\* incomplete batch had documents appended (otherwise none).
C2_FlushCount ==
    (pc = "done" /\ raised = "none") =>
        /\ flushes.loop = Len(repos) \div write_batch_size
        /\ flushes.final =
               IF TailKeys(Len(repos), write_batch_size) \cap yielded # {}
               THEN 1 ELSE 0

\* C2: three repositories in batches of two, one flush in the loop, one after
C2_Witness ==
    /\ pc = "done"
    /\ raised = "none"
    /\ Len(repos) = 3
    /\ write_batch_size = 2
    /\ flushes = [loop |-> 1, final |-> 1]

\* C3 as claimed (Spec): the step that completes a flush, in the loop or
\* after it, leaves both accumulator lists empty, and a step that empties a
\* non-empty accumulator is one that has written it.
C3_EmptyAfterEveryFlush ==
    /\ [][flushes' # flushes => (metadata' = <<>> /\ filedata' = <<>>)]_vars
    /\ [][((metadata # <<>> \/ filedata # <<>>)
             /\ metadata' = <<>> /\ filedata' = <<>>)
          => (flushes' # flushes
              /\ files' = files \o WrittenFiles(filedata, metadata,
                                                write_batch_counter))]_vars

C5_RepoFailureNeverAborts ==
    (pc = "done" /\ raised \notin {"ValueError", "WriteError"}) =>
        i = Len(repos)

\* C6 as claimed (SpecDiscover): no request is made for a page above 10.
C6_PageCeiling ==
    pc = "session_get" => page <= PageCeiling

\* the step of run_repos_query at which the retries of a page are used up
RetriesExhausted == RequestFail /\ ~RetryCond(retries + 1)

\* the step by which run_repos_query returns what it has accumulated
ReturnsAccumulated ==
    /\ pc' = "orch_loop"
    /\ win' = win + 1
    /\ repos' = repos \o Take(q_repos, RepoBatchSize(n_repos))

\* C7 as claimed (SpecDiscover): when the retries of a page are used up, on
\* any page, the query returns what it has accumulated and asks for no
\* later page of the window.
C7_ExhaustedAlwaysReturns ==
    [][RetriesExhausted => ReturnsAccumulated]_vars

\* C7 as amended (SpecDiscover): when the retries of a page are used up on
\* page 10 or later, the query returns what it has accumulated (cut to the
\* target) and asks for no later page of the window; on a page below 10 it
\* goes on to ask for the next page.
C7_ExhaustedReturnsFromPage10 ==
    [][RetriesExhausted =>
          IF page >= PageCeiling
          THEN ReturnsAccumulated
          ELSE pc' = "query_loop" /\ page' = page + 1 /\ win' = win
               /\ q_repos' = q_repos /\ repos' = repos]_vars

\* C7: a window was ended by used-up retries and returned what it had
C7_Witness ==
    pc = "orch_loop" /\ printed = 1 /\ win = 2 /\ Len(repos) > 0

\* C8 as claimed (SpecDiscoverFair): get_repos_orchestrator returns, or
\* raises, whatever the search API answers.
C8_DiscoveryTerminates ==
    <>(pc \in {"orch_ret", "unwind"})

\* the least m with m * 900 >= n
CeilOverCap(n) == CHOOSE m \in 1..n : m * WindowCap >= n /\ (m - 1) * WindowCap < n

\* C9 as claimed (SpecWindows): one window for n_repos <= 900 and
\* ceil(n_repos/900) above; each window starts on the date the one before
\* ends; no two windows cover the same date range.
C9_WindowsContiguousDisjoint ==
    pc = "windows_ret" =>
        /\ Len(intervals) = IF n_repos <= WindowCap THEN 1 ELSE CeilOverCap(n_repos)
        /\ \A k \in 1..(Len(intervals) - 1) :
               intervals[k + 1].start = intervals[k].end
        /\ \A j, k \in 1..Len(intervals) :
               j < k => intervals[j] # intervals[k]

\* C10 as claimed (SpecWindows): the windows have one width, the first
\* starts last_n_days ago and the last ends today, so that every date of
\* the range lies in a window.
C10_WindowsCoverRange ==
    pc = "intervals_ret" =>
        /\ Len(intervals) = n_intervals
        /\ \A j, k \in 1..Len(intervals) :
               intervals[j].end - intervals[j].start
                   = intervals[k].end - intervals[k].start
        /\ intervals[1].start = 0 - last_n_days
        /\ intervals[Len(intervals)].end = 0
        /\ \A d \in (0 - last_n_days)..0 :
               \E k \in 1..Len(intervals) :
                   intervals[k].start <= d /\ d <= intervals[k].end

\* C11 as claimed (SpecDiscover): when no request fails and every window's
\* query is supplied with its target count, get_repos_orchestrator returns
\* exactly n_repos descriptors, for every n_repos >= 1.
C11_ReturnsExactlyNRepos ==
    (pc = "orch_ret" /\ ~req_failed) => Len(repos) = n_repos

\* C12 (SpecDiscover): whatever the search API answers, no window adds more
\* than its target count to the result, and the result never holds more
\* than n_repos descriptors.
C12_NeverMoreThanAsked ==
    [][/\ Len(repos') <= Len(repos) + RepoBatchSize(n_repos)
       /\ Len(repos') <= n_repos]_vars

\* C12: two windows returned, each cut from full pages down to its target
C12_Witness ==
    /\ pc = "orch_ret"
    /\ Len(intervals) = 2
    /\ RepoBatchSize(n_repos) % per_page # 0
    /\ Len(repos) = 2 * RepoBatchSize(n_repos)

\* the entries the claim counts: regular files that pass the filter and are
\* read and decoded
RegularFileKept(e) ==
    /\ e.mode = "file"
    /\ ~\E t \in UNWANTED_TYPES : EndsWith(e.path, t)
    /\ e.disk.ok
    /\ Decode(e.disk.bytes).ok

\* C13 as claimed (SpecLoad): load_concurrently returns only when every
\* submitted entry was loaded or skipped, whatever the order the workers
\* run and finish in, and the list it returns holds exactly one Document
\* for each entry that is a regular file, passes the filter and is read and
\* decoded: as many Documents as such entries, none lost, none twice.
C13_OneDocumentPerRegularFile ==
    pc = "lc_ret" =>
        /\ Len(future_to_item) = Len(tree)
        /\ \A k \in 1..Len(tree) : future_to_item[k].state = "finished"
        /\ Len(lc_files)
               = Cardinality({k \in 1..Len(tree) : RegularFileKept(tree[k])})
        /\ \A k \in 1..Len(tree) :
               RegularFileKept(tree[k]) =>
                   Cardinality({j \in 1..Len(lc_files) :
                                   lc_files[j].file_path = tree[k].path}) = 1

\* C14 as claimed (SpecLoadFile): load_file never raises; it returns None
\* for an entry that is not a regular file (a directory, a submodule, a
\* symbolic link), for a path that ends with a denylisted suffix, for bytes
\* that are not UTF-8 and for a read that fails; for every other entry it
\* returns a Document whose file_path is the path relative to the
\* repository's root.
C14_SkipsOrLoads ==
    pc = "load_file_ret" =>
        /\ raised = "none"
        /\ IF \/ item.mode # "file"
              \/ \E t \in UNWANTED_TYPES : EndsWith(item.path, t)
              \/ ~item.disk.ok
              \/ ~Decode(item.disk.bytes).ok
           THEN loaded = NoFile
           ELSE loaded.some /\ loaded.file_path = item.path

\* the files of one kind among those written, in the order of writing
FilesOfKind(kind) == SelectSeq(files, LAMBDA f : f.kind = kind)

\* the rows of a sequence of files, one after the other
RECURSIVE ConcatRows(_)
ConcatRows(fs) == IF fs = <<>> THEN <<>> ELSE Head(fs).rows \o ConcatRows(Tail(fs))

\* C15 (Spec): when pipeline_fetch_and_load completes normally, the document
\* files written hold together exactly the documents pull_code_helper
\* returned for the repositories processed, each once, and the files of a
\* kind were written under strictly increasing batch indices.
C15_BatchesHoldReturnedOnce ==
    (pc = "done" /\ raised = "none") =>
        /\ ConcatRows(FilesOfKind("filedata")) = returned
        /\ \A kind \in {"filedata", "metadata"} :
               \A j, k \in 1..Len(FilesOfKind(kind)) :
                   j < k => FilesOfKind(kind)[j].index < FilesOfKind(kind)[k].index

\* C15: a run completed with one batch written in the loop and one after it,
\* holding three documents between them
C15_Witness ==
    /\ pc = "done"
    /\ raised = "none"
    /\ flushes = [loop |-> 1, final |-> 1]
    /\ Len(returned) = 3

\* C16 as claimed (Spec): when pull_code_helper has returned a list of
\* documents, of any length, process_repo appends one metadata row for the
\* repository and every document of the list tagged with the repository's
\* key; when it has returned None, process_repo appends nothing.
C16_AppendsForEveryReturnedList ==
    [][pc = "helper_ret" =>
          IF response.some
          THEN /\ metadata' = Append(metadata, h_key)
               /\ filedata' = filedata
                      \o [k \in 1..Len(response.docs) |-> <<h_key, response.docs[k]>>]
          ELSE metadata' = metadata /\ filedata' = filedata]_vars

\* C17 as claimed (Spec): without an access token the run ends with the
\* configuration error, and until it is raised nothing is asked of the
\* search API, no repository is cloned or pulled, no file is written and
\* the local workspace is not changed.
C17_ErrorBeforeAnyIO ==
    [][~token =>
          /\ pc' \notin {"orch_loop", "query_loop", "session_get", "pull"}
          /\ last_git' = "none"
          /\ files' = <<>>
          /\ repodata' = repodata
          /\ (pc' = "done" => raised' = "ValueError")]_vars

\* C17 as amended (Spec): without an access token the run ends with the
\* configuration error; nothing is asked of the search API, no repository
\* is cloned or pulled and no file is written; the one change made to the
\* local workspace is the removal of a stale workspace root, which is the
\* first step of the run and comes before the token is looked for.
C17_ErrorBeforeRequests ==
    [][~token =>
          /\ pc' \notin {"orch_loop", "query_loop", "session_get", "pull"}
          /\ last_git' = "none"
          /\ files' = <<>>
          /\ (repodata' # repodata =>
                  pc = "start" /\ repodata.exists /\ repodata' = NoWorkspace)
          /\ (pc' = "done" => raised' = "ValueError")]_vars

\* C17: a run without a token has ended with the configuration error
C17_Witness ==
    ~token /\ pc = "done" /\ raised = "ValueError" /\ repodata = NoWorkspace

C19_ZeroSizeSkippedButCounted ==
    [][/\ (pc = "pipe_loop" /\ i < Len(repos) /\ repos[i + 1].size = 0) =>
              /\ pc' = "batch_check"
              /\ i' = i
              /\ UNCHANGED <<gitVars, helperVars, metadata, filedata, returned>>
       /\ (pc' = "pipe_loop" => flushes'.loop = i' \div write_batch_size)]_vars

\* C19: the second repository was of size zero and its turn made the batch
\* of two due
C19_Witness ==
    /\ pc = "pipe_loop"
    /\ i = 2
    /\ repos[2].size = 0
    /\ write_batch_size = 2
    /\ flushes.loop = 1
    /\ yielded = {1}

\* the repository keys of a list of documents, and of a list of metadata rows
DocKeys(fd) == {fd[k][1] : k \in 1..Len(fd)}

RowKeys(md) == {md[k] : k \in 1..Len(md)}

\* C20 (Spec): between two repositories the documents accumulated carry the
\* keys of exactly the repositories that have a metadata row, and so do the
\* two files of every batch written.
C20_AccumulatorsCorrelated ==
    /\ pc \in {"pipe_loop", "batch_check"} => DocKeys(filedata) = RowKeys(metadata)
    /\ \A j \in 1..(Len(files) - 1) :
           files[j].kind = "filedata" =>
               /\ files[j + 1].kind = "metadata"
               /\ files[j + 1].index = files[j].index
               /\ DocKeys(files[j].rows) = RowKeys(files[j + 1].rows)

\* C20: a batch of two repositories was written, one of which had documents
C20_Witness ==
    /\ pc = "pipe_loop"
    /\ Len(files) = 2
    /\ DocKeys(files[1].rows) = {2}
    /\ RowKeys(files[2].rows) = {2}
    /\ Len(files[1].rows) = 2

\* the values of n_repos the targets are computed for
AskedRange == 1..(2 * WindowCap + 1)

\* C21 (SpecDiscover): for every n_repos the target of a window,
\* n_repos // n_intervals, is at most 900; hence a request made in a window
\* whose earlier pages all came back full (100 items each) is for page 9 at
\* the latest, within what the search API serves.
C21_TargetWithinCap ==
    /\ pc = "discover" => \A n \in AskedRange : RepoBatchSize(n) <= WindowCap
    /\ RepoBatchSize(n_repos) <= WindowCap
    /\ (pc = "session_get" /\ Len(q_repos) = (page - 1) * per_page) =>
           page * per_page <= WindowCap

\* C21: a window with the greatest target, eight full pages in, asks for
\* its ninth and last page
C21_Witness ==
    /\ pc = "session_get"
    /\ RepoBatchSize(n_repos) = WindowCap
    /\ page = 9
    /\ Len(q_repos) = 8 * per_page
    /\ ~req_failed

====
